---- MODULE Spec2Model ----
(***************************************************************************)
(* Model of the OpenRQ installer (src/main.go): platform path resolution,  *)
(* zip extraction with progress reporting, shortcut handling, and the      *)
(* install / update / uninstall callbacks run by the button goroutines.    *)
(*                                                                         *)
(* Strings are sequences of tokens: "/" is a token of its own, a user name *)
(* is a sequence of characters, every other literal piece is one token.    *)
(* A filesystem path is the sequence of its components below "/"; the      *)
(* directory that holds the install directory is shortened to /home.       *)
(* Permission bits are the owner's rwx bits as an octal digit.             *)
(***************************************************************************)
EXTENDS Integers, Sequences, FiniteSets, TLC

\* Bounds of the model.
\* button goroutines alive at the same time
MaxGoroutines == 2
\* taps in one behaviour
MaxOps == 3
\* entries of the embedded archive
MaxEntries == 2
\* characters of the OS account name
MaxNameLen == 3
\* I/O failures the environment injects in one behaviour
MaxFaults == 1

(***************************************************************************)
(* Strings and platform paths (PathResolver)                               *)
(***************************************************************************)

appName == <<"OpenRQ">>

GoosValues == {"linux", "windows", "darwin", "other"}

NameChars == {"a", "b", "\\"}

RECURSIVE SeqsUpTo(_, _)
SeqsUpTo(S, n) ==
    IF n = 0 THEN {<<>>}
    ELSE LET shorter == SeqsUpTo(S, n - 1)
         IN  shorter \cup {Append(s, c) : s \in {t \in shorter : Len(t) = n - 1}, c \in S}

AccountNames == SeqsUpTo(NameChars, MaxNameLen) \ {<<>>}

\* strings.Contains(s, c) for a one-character c
Contains(s, c) == \E k \in 1..Len(s) : s[k] = c

\* strings.LastIndex(s, c): 0-based index of the last c, -1 when there is none
LastIndex(s, c) ==
    IF Contains(s, c)
    THEN (CHOOSE k \in 1..Len(s) : s[k] = c /\ \A j \in (k+1)..Len(s) : s[j] # c) - 1
    ELSE -1

\* s[index:] with a 0-based index
SliceFrom(s, index) == SubSeq(s, index + 1, Len(s))

\* the part after the first backslash instead of the last
GetUsernameFirstIndex(username) ==
    IF Contains(username, "\\")
    THEN SliceFrom(username, (CHOOSE k \in 1..Len(username) :
                                 username[k] = "\\" /\ \A j \in 1..(k - 1) : username[j] # "\\"))
    ELSE username

GetUsername(username) ==
    IF Contains(username, "\\")
    THEN SliceFrom(username, LastIndex(username, "\\") + 1)
    ELSE username

\* fmt.Sprintf with %s verbs only: each "%s" token takes the next argument
RECURSIVE Sprintf(_, _)
Sprintf(format, args) ==
    IF format = <<>> THEN <<>>
    ELSE IF Head(format) = "%s"
         THEN (IF args = <<>> THEN <<"%!s(MISSING)">> ELSE Head(args))
              \o Sprintf(Tail(format), IF args = <<>> THEN <<>> ELSE Tail(args))
         ELSE <<Head(format)>> \o Sprintf(Tail(format), args)

GetInstallPathCwd(os, username) ==
    CASE os = "windows" ->
           Sprintf(<<"C:", "/", "Users", "/", "%s", "/", "AppData", "/", "Local", "/", "%s", "/">>,
                   <<GetUsername(username), appName>>)
      [] os = "linux" ->
           Sprintf(<<"/", "home", "/", "%s", "/", ".local", "/", "share", "/", "%s", "/">>,
                   <<GetUsername(username), appName>>)
      [] os = "darwin" ->
           Sprintf(<<"/", "Applications", "/", "%s", "/">>, <<appName>>)
      [] OTHER ->
           Sprintf(<<".", "/", "%s", "/">>, <<appName>>)

GetInstallPath(os, username) ==
    CASE os = "windows" ->
           Sprintf(<<"C:", "/", "Users", "/", "%s", "/", "AppData", "/", "Local", "/", "%s", "/">>,
                   <<GetUsername(username), appName>>)
      [] os = "linux" ->
           Sprintf(<<"/", "home", "/", "%s", "/", ".local", "/", "share", "/", "%s", "/">>,
                   <<GetUsername(username), appName>>)
      [] os = "darwin" ->
           Sprintf(<<"/", "Applications", "/", "%s", "/">>, <<appName>>)
      [] OTHER ->
           Sprintf(<<"%s", "/", "%s", "/">>, <<GetUsername(username), appName>>)

GetTempPath(os, username) ==
    IF os = "darwin" THEN <<"/", "tmp", "/">>
    ELSE IF os = "windows"
         THEN Sprintf(<<"C:", "/", "Users", "/", "%s", "/", "AppData", "/", "Local", "/", "Temp", "/">>,
                      <<GetUsername(username)>>)
         ELSE Sprintf(<<"/", "home", "/", "%s", "/", ".cache", "/">>, <<GetUsername(username)>>)

GetExecutableName(os) ==
    IF os = "windows" THEN appName \o <<".exe">> ELSE appName

\* strings.ToLower(appName)
ToLower(s) == [k \in 1..Len(s) |-> IF s[k] = "OpenRQ" THEN "openrq" ELSE s[k]]

\* a shortcut location on macOS as well
GetShortcutLocationDarwin(os, username) ==
    CASE os = "linux" ->
           Sprintf(<<"/", "home", "/", "%s", "/", ".local", "/", "share", "/", "applications", "/",
                     "%s", ".desktop">>,
                   <<GetUsername(username), ToLower(appName)>>)
      [] os = "windows" ->
           Sprintf(<<"C:", "/", "Users", "/", "%s", "/", "AppData", "/", "Roaming", "/", "Microsoft", "/",
                     "Windows", "/", "Start Menu", "/", "Programs", "/", "%s", ".lnk">>,
                   <<GetUsername(username), appName>>)
      [] os = "darwin" ->
           Sprintf(<<"/", "Applications", "/", "%s", ".app">>, <<appName>>)
      [] OTHER -> <<>>

GetShortcutLocation(os, username) ==
    CASE os = "linux" ->
           Sprintf(<<"/", "home", "/", "%s", "/", ".local", "/", "share", "/", "applications", "/",
                     "%s", ".desktop">>,
                   <<GetUsername(username), ToLower(appName)>>)
      [] os = "windows" ->
           Sprintf(<<"C:", "/", "Users", "/", "%s", "/", "AppData", "/", "Roaming", "/", "Microsoft", "/",
                     "Windows", "/", "Start Menu", "/", "Programs", "/", "%s", ".lnk">>,
                   <<GetUsername(username), appName>>)
      [] OTHER -> <<>>

\* A path string is absolute when it starts at the root or at a drive root.
IsAbs(s) ==
    \/ Len(s) >= 1 /\ s[1] = "/"
    \/ Len(s) >= 2 /\ s[1] = "C:" /\ s[2] = "/"

(***************************************************************************)
(* Filesystem: dirs maps each existing directory below "/" to its mode,    *)
(* files maps each existing regular file to its mode and content.          *)
(* priv is TRUE when the process bypasses permission checks (runs as root).*)
(* On Windows the os package ignores the mode of a directory and keeps of  *)
(* a file's mode only the owner-writable bit, as the read-only attribute,  *)
(* which no account bypasses.                                              *)
(***************************************************************************)

\* permission bits of directories are not enforced
DirPriv(os, root) == root \/ os = "windows"

\* the write bit of an existing file is not enforced
FilePriv(os, root) == root /\ os # "windows"

Home == <<"home">>

\* The filesystem location GetInstallPath() names.
InstallDir == <<"home", "OpenRQ">>

CanWrite(mode)  == (mode \div 2) % 2 = 1
CanSearch(mode) == mode % 2 = 1

Parent(path) == SubSeq(path, 1, Len(path) - 1)

IsPrefix(a, b) == Len(a) <= Len(b) /\ SubSeq(b, 1, Len(a)) = a

\* filepath.Clean on a rooted path, component by component
RECURSIVE CleanFrom(_, _)
CleanFrom(acc, rest) ==
    IF rest = <<>> THEN acc
    ELSE LET c == Head(rest)
         IN  IF c = "" \/ c = "." THEN CleanFrom(acc, Tail(rest))
             ELSE IF c = ".."
                  THEN CleanFrom(IF acc = <<>> THEN <<>> ELSE Parent(acc), Tail(rest))
                  ELSE CleanFrom(Append(acc, c), Tail(rest))

\* filepath.Join(output, file.Name)
Join(output, name) == CleanFrom(<<>>, output \o name)

\* filepath.Dir(path) of a cleaned path
Dir(path) == Parent(path)

IsDir(d, path) == path = <<>> \/ path \in DOMAIN d

\* "/" itself is r-x for an ordinary user
ModeOfDir(d, path) == IF path = <<>> THEN 5 ELSE d[path]

\* every directory on the way to path exists and may be searched
Reachable(d, path, priv) ==
    \A k \in 0..(Len(path) - 1) :
        LET a == SubSeq(path, 1, k)
        IN  IsDir(d, a) /\ (priv \/ CanSearch(ModeOfDir(d, a)))

\* an entry may be added to or removed from directory dir
CanModifyDir(d, dir, priv) ==
    IsDir(d, dir) /\ (priv \/ (CanWrite(ModeOfDir(d, dir)) /\ CanSearch(ModeOfDir(d, dir))))

\* os.MkdirAll(path, perm): [err, dirs]
RECURSIVE MkdirAll(_, _, _, _, _)
MkdirAll(d, f, path, perm, priv) ==
    IF Reachable(d, path, priv) /\ IsDir(d, path)
    THEN [err |-> "nil", dirs |-> d]
    ELSE IF Reachable(d, path, priv) /\ path \in DOMAIN f
    THEN [err |-> "ENOTDIR", dirs |-> d]
    ELSE LET r == MkdirAll(d, f, Parent(path), perm, priv)
         IN  IF r.err # "nil" THEN r
             ELSE IF /\ Reachable(r.dirs, path, priv)
                     /\ CanModifyDir(r.dirs, Parent(path), priv)
                     /\ path \notin DOMAIN r.dirs
                     /\ path \notin DOMAIN f
                  THEN [err |-> "nil", dirs |-> r.dirs @@ (path :> perm)]
                  ELSE [err |-> "EACCES", dirs |-> r.dirs]

\* os.OpenFile(path, O_WRONLY|O_CREATE|O_TRUNC, perm): [err, why, files]
\* why tells whether the parent directory or the file itself refused;
\* priv lifts the checks on directories, fpriv the check on an existing file.
OpenFile(d, f, path, perm, priv, fpriv) ==
    IF ~(Reachable(d, path, priv) /\ path # <<>>)
    THEN [err |-> IF \A k \in 0..(Len(path) - 1) : IsDir(d, SubSeq(path, 1, k))
                  THEN "EACCES" ELSE "ENOENT",
          why |-> "parent", files |-> f]
    ELSE IF IsDir(d, path)
    THEN [err |-> "EISDIR", why |-> "target", files |-> f]
    ELSE IF path \in DOMAIN f
    THEN IF fpriv \/ CanWrite(f[path].mode)
         THEN [err |-> "nil", why |-> "none",
               files |-> [f EXCEPT ![path] = [mode |-> f[path].mode, content |-> 0]]]
         ELSE [err |-> "EACCES", why |-> "target", files |-> f]
    ELSE IF CanModifyDir(d, Parent(path), priv)
         THEN [err |-> "nil", why |-> "none",
               files |-> f @@ (path :> [mode |-> perm, content |-> 0])]
         ELSE [err |-> "EACCES", why |-> "parent", files |-> f]

\* everything at or below path
Under(d, f, path) == {m \in (DOMAIN d) \cup (DOMAIN f) : IsPrefix(path, m)}

\* os.RemoveAll(path): [err, dirs, files]; a missing path is no error; what
\* cannot be removed stays, together with the directories above it.
RemoveAll(d, f, path, priv) ==
    LET under == Under(d, f, path)
        gone  == {n \in under :
                     \A m \in under : IsPrefix(n, m) => CanModifyDir(d, Parent(m), priv)}
    IN  [err   |-> IF gone = under THEN "nil" ELSE "EACCES",
         dirs  |-> [m \in (DOMAIN d) \ gone |-> d[m]],
         files |-> [m \in (DOMAIN f) \ gone |-> f[m]]]

\* os.Stat(path) succeeds
Exists(d, f, path, priv) ==
    Reachable(d, path, priv) /\ (IsDir(d, path) \/ path \in DOMAIN f)

(***************************************************************************)
(* The embedded payload (appData) and the archive entries it decodes to.   *)
(* An entry name is its "/"-separated components; a trailing "/" (an empty *)
(* last component) marks a directory entry, as archive/zip's Mode() does.  *)
(***************************************************************************)

EntryPool ==
       {[name |-> <<"a", "">>, mode |-> m, content |-> 0] : m \in {7, 5}}
  \cup {[name |-> <<"a", "f">>, mode |-> m, content |-> 1] : m \in {7, 6, 4}}
  \cup {[name |-> <<"", "g">>, mode |-> m, content |-> 2] : m \in {6, 4}}
  \cup {[name |-> <<"..", "e">>, mode |-> 6, content |-> 3]}

Archives == SeqsUpTo(EntryPool, MaxEntries)

\* base64 says whether DecodeString accepts appData, zip whether NewReader does
Payloads ==
       {[base64 |-> TRUE, zip |-> TRUE, File |-> a] : a \in Archives}
  \cup {[base64 |-> TRUE, zip |-> FALSE, File |-> <<>>],
        [base64 |-> FALSE, zip |-> FALSE, File |-> <<>>]}

\* file.FileInfo().IsDir()
IsDirEntry(file) == file.name[Len(file.name)] = ""

RECURSIVE Gcd(_, _)
Gcd(a, b) == IF b = 0 THEN a ELSE Gcd(b, a % b)

\* the float64 quotient a / b, kept as the fraction in lowest terms
Quot(a, b) == <<a \div Gcd(a, b), b \div Gcd(a, b)>>

Zero == Quot(0, 1)
One  == Quot(1, 1)

FracLess(x, y) == x[1] * y[2] < y[1] * x[2]
FracLeq(x, y)  == x[1] * y[2] <= y[1] * x[2]

ProgressOfIndexOnly(i, n) == Quot(i, n)

\* the share of the entries still to come
ProgressOfRemaining(i, n) == Quot(n - i, n)

\* float64(i+1) / float64(len(reader.File))
ProgressOf(i, n) == Quot(i + 1, n)

DeferredNone(handles) == handles

\* extractAndWrite returns: the deferred functions close every handle that
\* was opened
Deferred(handles) == {}

\* extractAndWrite up to the opening of the output file.
\* fault: "none", "open" (file.Open fails), "create" (OpenFile fails on I/O)
ExtractOpen(d, f, file, output, priv, fpriv, fault) ==
    LET path == Join(output, file.name)
        base == [path |-> path, dirs |-> d, files |-> f, handles |-> {},
                 why |-> "none"]
    IN  IF fault = "open"
        THEN [base EXCEPT !.why = "fault"] @@ [err |-> "EIO", at |-> "file.Open"]
        ELSE IF IsDirEntry(file)
        THEN LET r == MkdirAll(d, f, path, file.mode, priv)
             IN  [base EXCEPT !.dirs = r.dirs,
                              !.handles = Deferred({"readCloser"}),
                              !.why = IF r.err = "nil" THEN "none" ELSE "target"]
                 @@ [err |-> r.err, at |-> "MkdirAll"]
        ELSE LET r == MkdirAll(d, f, Dir(path), file.mode, priv)
             IN  IF r.err # "nil"
                 THEN [base EXCEPT !.dirs = r.dirs, !.why = "parent",
                                   !.handles = Deferred({"readCloser"})]
                      @@ [err |-> r.err, at |-> "MkdirAll"]
                 ELSE IF fault = "create"
                 THEN [base EXCEPT !.dirs = r.dirs, !.why = "fault",
                                   !.handles = Deferred({"readCloser"})]
                      @@ [err |-> "EIO", at |-> "OpenFile"]
                 ELSE LET o == OpenFile(r.dirs, f, path, file.mode, priv, fpriv)
                      IN  [base EXCEPT !.dirs = r.dirs, !.files = o.files,
                                       !.why = o.why,
                                       !.handles = IF o.err = "nil"
                                                   THEN {"readCloser", "outFile"}
                                                   ELSE Deferred({"readCloser"})]
                          @@ [err |-> o.err, at |-> "OpenFile"]

\* io.Copy(outFile, readCloser); fault "copy" leaves the file truncated
ExtractCopy(f, file, path, fault) ==
    IF fault = "copy"
    THEN [err |-> "EIO", files |-> f]
    ELSE [err |-> "nil",
          files |-> [f EXCEPT ![path] = [mode |-> f[path].mode, content |-> file.content]]]

\* CreateShortcut: [err, shortcut, script]
\* fault: "none", "write" (WriteFile fails), "exec" (wscript fails),
\*        "remove" (os.Remove of the script fails)
CreateShortcut(os, shortcut, script, fault) ==
    IF os = "darwin"
    THEN [err |-> "nil", shortcut |-> shortcut, script |-> script]
    ELSE IF os = "linux"
    THEN IF fault = "write"
         THEN [err |-> "EIO", shortcut |-> shortcut, script |-> script]
         ELSE [err |-> "nil", shortcut |-> TRUE, script |-> script]
    ELSE IF os = "windows"
    THEN IF fault = "write"
         THEN [err |-> "EIO", shortcut |-> shortcut, script |-> script]
         ELSE IF fault = "exec"
         THEN [err |-> "exec", shortcut |-> shortcut, script |-> TRUE]
         ELSE IF fault = "remove"
         THEN [err |-> "EIO", shortcut |-> TRUE, script |-> TRUE]
         ELSE [err |-> "nil", shortcut |-> TRUE, script |-> FALSE]
    ELSE [err |-> "nil", shortcut |-> shortcut, script |-> script]

\* a removal that takes a missing shortcut file for done
RemoveShortcutIfPresent(shortcut, fault) ==
    IF ~shortcut THEN [err |-> "nil", shortcut |-> FALSE]
    ELSE IF fault = "io" THEN [err |-> "EIO", shortcut |-> TRUE]
    ELSE [err |-> "nil", shortcut |-> FALSE]

\* os.Remove(shortcut) of Uninstall: [err, shortcut]
RemoveShortcut(shortcut, fault) ==
    IF ~shortcut THEN [err |-> "ENOENT", shortcut |-> FALSE]
    ELSE IF fault = "io" THEN [err |-> "EIO", shortcut |-> TRUE]
    ELSE [err |-> "nil", shortcut |-> FALSE]

(***************************************************************************)
(* State                                                                   *)
(***************************************************************************)

VARIABLES
    goos,           \* runtime.GOOS
    priv,           \* the process bypasses permission checks
    username,       \* user.Current().Username
    appData,        \* the embedded payload
    dirs, files,    \* the filesystem
    shortcut,       \* the file at GetShortcutLocation() exists
    script,         \* the temporary CreateShortcut.vbs exists
    appInstalled,   \* GetButtonContainer's appInstalled
    disabled,       \* Disabled() of each button
    progress,       \* progress.Value
    status,         \* status.Text
    g,              \* the button goroutines
    taps,           \* taps so far
    crashed,        \* the process died in a panic
    touched,        \* paths extractAndWrite created or opened for writing
    last,           \* summary of the operation that finished last
    faults,         \* I/O failures injected so far
    resolved        \* results of the path functions called so far

vars == <<goos, priv, username, appData, dirs, files, shortcut, script, appInstalled,
          disabled, progress, status, g, taps, crashed, touched, last, faults,
          resolved>>

Goroutines == 1..MaxGoroutines

NoOp == [op |-> "none", err |-> "nil", faulted |-> FALSE, contents |-> <<>>]

Idle == [pc |-> "free", button |-> "none", op |-> "none", i |-> 0,
         err |-> "nil", serr |-> "nil", at |-> "none", why |-> "none",
         path |-> <<>>, handles |-> {}, tk |-> 0, tv |-> "none",
         trace |-> <<>>, reports |-> <<>>, faulted |-> FALSE,
         existed |-> FALSE, nonEmpty |-> FALSE, hadShortcut |-> FALSE,
         prev |-> NoOp]

\* the buttons slice of GetButtonContainer
buttons == <<"Uninstall", "Update">>

Shown == IF appInstalled THEN {"Uninstall", "Update"} ELSE {"Install"}

OpOf(button) == IF button = "Uninstall" THEN "uninstall" ELSE "install"

\* content of every file below the install directory
Contents(f) == [m \in {x \in DOMAIN f : IsPrefix(InstallDir, x)} |-> f[m].content]

Running(p) == g[p].pc \notin {"free", "pre", "post"}

InitFs ==
    /\ dirs = (Home :> 7)
    /\ files = <<>>
    /\ shortcut = FALSE
    /\ script = FALSE

InitUi ==
    /\ appInstalled = FALSE
    /\ disabled = [b \in {"Install", "Uninstall", "Update"} |-> FALSE]
    /\ progress = Zero
    /\ status = "Waiting..."
    /\ g = [p \in Goroutines |-> Idle]
    /\ taps = 0
    /\ crashed = FALSE
    /\ touched = {}
    /\ last = NoOp
    /\ faults = 0
    /\ resolved = <<>>

Init ==
    /\ goos \in GoosValues
    /\ priv \in (IF goos = "windows" THEN {FALSE} ELSE BOOLEAN)
    /\ username = <<"a">>
    /\ appData \in Payloads
    /\ InitFs
    /\ InitUi

(***************************************************************************)
(* Buttons (GetButtonContainer)                                            *)
(***************************************************************************)

FreeSlot == CHOOSE p \in Goroutines : g[p].pc = "free" /\ \A q \in 1..(p - 1) : g[q].pc # "free"

Spawn(b) ==
    /\ ~crashed
    /\ b \in Shown
    /\ ~disabled[b]
    /\ taps < MaxOps
    /\ \E p \in Goroutines : g[p].pc = "free"
    /\ g' = [g EXCEPT ![FreeSlot] = [Idle EXCEPT !.pc = "pre", !.button = b,
                                                 !.op = OpOf(b), !.tk = 1]]
    /\ taps' = taps + 1
    /\ UNCHANGED <<goos, priv, username, appData, dirs, files, shortcut, script,
                   appInstalled, disabled, progress, status, crashed, touched, last,
                   faults, resolved>>

\* a tap on an enabled button: the handler starts a goroutine and returns
Tap(b) == Spawn(b)

\* a tap made while no goroutine of an earlier tap is alive
TapWhenIdle(b) == (\A p \in Goroutines : g[p].pc = "free") /\ Spawn(b)

UiOnly == <<goos, priv, username, appData, dirs, files, shortcut, script, appInstalled,
            progress, status, taps, crashed, touched, last, faults, resolved>>

\* button.Disable() of the Install button's goroutine
ButtonDisable(p) ==
    /\ ~crashed
    /\ g[p].pc = "pre" /\ g[p].button = "Install"
    /\ disabled' = [disabled EXCEPT !["Install"] = TRUE]
    /\ g' = [g EXCEPT ![p].pc = "begin"]
    /\ UNCHANGED UiOnly

\* button.Enable() of the Install button's goroutine
ButtonEnable(p) ==
    /\ ~crashed
    /\ g[p].pc = "post" /\ g[p].button = "Install"
    /\ disabled' = [disabled EXCEPT !["Install"] = FALSE]
    /\ g' = [g EXCEPT ![p] = Idle]
    /\ UNCHANGED UiOnly

\* toggleButtons: what to call on a button, from its Disabled()
ToggleChoice(isDisabled) == IF isDisabled THEN "Enable" ELSE "Disable"

\* toggleButtons: button.Disabled() of the next button
ToggleRead(p) ==
    /\ ~crashed
    /\ g[p].pc \in {"pre", "post"} /\ g[p].button # "Install"
    /\ g[p].tv = "none"
    /\ g' = [g EXCEPT ![p].tv = ToggleChoice(disabled[buttons[g[p].tk]])]
    /\ UNCHANGED disabled
    /\ UNCHANGED UiOnly

\* toggleButtons: button.Enable() or button.Disable(), then the next button
ToggleWrite(p) ==
    /\ ~crashed
    /\ g[p].pc \in {"pre", "post"} /\ g[p].button # "Install"
    /\ g[p].tv # "none"
    /\ disabled' = [disabled EXCEPT ![buttons[g[p].tk]] = (g[p].tv = "Disable")]
    /\ g' = [g EXCEPT ![p] =
                IF g[p].tk < Len(buttons)
                THEN [g[p] EXCEPT !.tk = g[p].tk + 1, !.tv = "none"]
                ELSE IF g[p].pc = "pre"
                     THEN [g[p] EXCEPT !.pc = "begin", !.tk = 1, !.tv = "none"]
                     ELSE Idle]
    /\ UNCHANGED UiOnly

(***************************************************************************)
(* Install / Update callback (GetLayout, Install, Extract, CreateShortcut) *)
(***************************************************************************)

Const == <<goos, priv, username, appData, appInstalled, disabled, taps, resolved>>

Log(p, label) == Append(g[p].trace, label)

\* the environment may still make an I/O call fail
MayFail(fault) == fault # "none" => faults < MaxFaults

Count(fault) == IF fault # "none" THEN faults + 1 ELSE faults

\* progress.SetValue(0) at the start of the install callback
InstallReset(p) ==
    /\ ~crashed
    /\ g[p].pc = "begin" /\ g[p].op = "install"
    /\ progress' = Zero
    /\ g' = [g EXCEPT ![p].pc = "mkdir",
                      ![p].trace = Log(p, "SetValue(0)"),
                      ![p].prev = last,
                      ![p].existed = Exists(dirs, files, InstallDir, DirPriv(goos, priv)),
                      ![p].nonEmpty = (Under(dirs, files, InstallDir) \ {InstallDir} # {}),
                      ![p].hadShortcut = shortcut]
    /\ UNCHANGED <<dirs, files, shortcut, script, status, crashed, touched, last>>
    /\ UNCHANGED Const
    /\ UNCHANGED faults

\* Install: os.MkdirAll(GetInstallPath(), 0700)
InstallMkdirAll(p) ==
    /\ ~crashed
    /\ g[p].pc = "mkdir"
    /\ \E fault \in {"none", "io"} :
         LET r == IF fault = "io" THEN [err |-> "EIO", dirs |-> dirs]
                  ELSE MkdirAll(dirs, files, InstallDir, 7, DirPriv(goos, priv))
         IN  /\ MayFail(fault)
             /\ faults' = Count(fault)
             /\ dirs' = r.dirs
             /\ g' = [g EXCEPT ![p].pc = IF r.err = "nil" THEN "decode" ELSE "report",
                               ![p].err = r.err,
                               ![p].at = "Install.MkdirAll",
                               ![p].faulted = g[p].faulted \/ fault # "none",
                               ![p].trace = Log(p, "MkdirAll")]
    /\ UNCHANGED <<files, shortcut, script, progress, status, crashed, touched, last>>
    /\ UNCHANGED Const

\* Install: base64 DecodeString, then status.SetText("Installing...")
InstallDecode(p) ==
    /\ ~crashed
    /\ g[p].pc = "decode"
    /\ IF appData.base64
       THEN /\ status' = "Installing..."
            /\ g' = [g EXCEPT ![p].pc = "newreader",
                              ![p].trace = Log(p, "DecodeString") \o <<"Installing...">>]
       ELSE /\ status' = status
            /\ g' = [g EXCEPT ![p].pc = "report", ![p].err = "base64",
                              ![p].at = "DecodeString",
                              ![p].trace = Log(p, "DecodeString")]
    /\ UNCHANGED <<dirs, files, shortcut, script, progress, crashed, touched, last>>
    /\ UNCHANGED Const
    /\ UNCHANGED faults

AfterInstallAlways(err) == "shortcut"

\* GetLayout: CreateShortcut runs only when Install returned no error
AfterInstall(err) == IF err = "nil" THEN "shortcut" ELSE "report"

\* Extract: zip.NewReader, and the loop's first test
ExtractNewReader(p) ==
    /\ ~crashed
    /\ g[p].pc = "newreader"
    /\ g' = [g EXCEPT ![p].pc = IF ~appData.zip THEN AfterInstall("zip")
                                ELSE IF Len(appData.File) = 0 THEN AfterInstall("nil")
                                ELSE "entry",
                      ![p].err = IF appData.zip THEN "nil" ELSE "zip",
                      ![p].at = "NewReader",
                      ![p].i = 0,
                      ![p].trace = Log(p, "NewReader")]
    /\ UNCHANGED <<dirs, files, shortcut, script, progress, status, crashed, touched, last>>
    /\ UNCHANGED Const
    /\ UNCHANGED faults

ExtractProgressOnSuccess(log, value, err) ==
    IF err = "nil" THEN Append(log, value) ELSE log

\* the progress values Extract has reported: progress.SetValue comes before
\* extractAndWrite, so the entry's value is reported whatever err turns out to be
ExtractProgress(log, value, err) == Append(log, value)

\* the loop's i++ and test after entry i was extracted
NextEntry(p, rec) ==
    IF g[p].i + 1 < Len(appData.File)
    THEN [rec EXCEPT !.pc = "entry", !.i = g[p].i + 1]
    ELSE [rec EXCEPT !.pc = AfterInstall("nil")]

SkipFailedEntry(p, rec, err) == NextEntry(p, rec)

\* Extract: an error of extractAndWrite is returned to Install at once
ReturnErr(p, rec, err) == [rec EXCEPT !.pc = AfterInstall(err)]

\* Extract: progress.SetValue for entry i, then extractAndWrite up to OpenFile
ExtractEntryOpen(p) ==
    /\ ~crashed
    /\ g[p].pc = "entry"
    /\ \E fault \in {"none", "open", "create"} :
         LET file == appData.File[g[p].i + 1]
             r    == ExtractOpen(dirs, files, file, InstallDir, DirPriv(goos, priv),
                                 FilePriv(goos, priv), fault)
             rec  == [g[p] EXCEPT !.err = r.err, !.at = r.at, !.why = r.why,
                                  !.path = r.path, !.handles = r.handles,
                                  !.faulted = g[p].faulted \/ r.why = "fault",
                                  !.reports = ExtractProgress(g[p].reports,
                                                  ProgressOf(g[p].i, Len(appData.File)),
                                                  r.err)]
         IN  /\ MayFail(fault)
             /\ fault # "none" => r.why = "fault"
             /\ faults' = Count(fault)
             /\ progress' = ProgressOf(g[p].i, Len(appData.File))
             /\ dirs' = r.dirs
             /\ files' = r.files
             /\ touched' = touched \cup ((DOMAIN r.dirs) \ (DOMAIN dirs))
                                   \cup (IF r.err = "nil" /\ ~IsDirEntry(file)
                                         THEN {r.path} ELSE {})
             /\ g' = [g EXCEPT ![p] =
                        IF r.err # "nil" THEN ReturnErr(p, rec, r.err)
                        ELSE IF IsDirEntry(file) THEN NextEntry(p, rec)
                        ELSE [rec EXCEPT !.pc = "copy"]]
    /\ UNCHANGED <<shortcut, script, status, crashed, last>>
    /\ UNCHANGED Const

\* extractAndWrite: io.Copy and the deferred Close calls
\* fault "close": outFile.Close fails and the deferred function panics
ExtractEntryCopy(p) ==
    /\ ~crashed
    /\ g[p].pc = "copy"
    /\ \E fault \in {"none", "copy", "close"} :
         LET file == appData.File[g[p].i + 1]
             c    == ExtractCopy(files, file, g[p].path, fault)
             rec  == [g[p] EXCEPT !.err = c.err, !.at = "io.Copy",
                                  !.why = IF c.err = "nil" THEN "none" ELSE "fault",
                                  !.handles = Deferred(g[p].handles),
                                  !.faulted = g[p].faulted \/ fault # "none"]
         IN  /\ MayFail(fault)
             /\ faults' = Count(fault)
             /\ files' = c.files
             /\ crashed' = (fault = "close")
             /\ g' = [g EXCEPT ![p] =
                        IF fault = "close" THEN [rec EXCEPT !.pc = "panic"]
                        ELSE IF c.err # "nil" THEN ReturnErr(p, rec, c.err)
                        ELSE NextEntry(p, rec)]
    /\ UNCHANGED <<dirs, shortcut, script, progress, status, touched, last>>
    /\ UNCHANGED Const

\* GetLayout: CreateShortcut()
CallCreateShortcut(p) ==
    /\ ~crashed
    /\ g[p].pc = "shortcut"
    /\ \E fault \in {"none", "write", "exec", "remove"} :
         LET r == CreateShortcut(goos, shortcut, script, fault)
         IN  /\ MayFail(fault)
             /\ fault # "none" => r.err # "nil"
             /\ faults' = Count(fault)
             /\ shortcut' = r.shortcut
             /\ script' = r.script
             /\ g' = [g EXCEPT ![p].pc = "report",
                               ![p].serr = r.err,
                               ![p].at = IF r.err = "nil" THEN g[p].at ELSE "CreateShortcut",
                               ![p].faulted = g[p].faulted \/ fault # "none",
                               ![p].trace = Log(p, "CreateShortcut")]
    /\ UNCHANGED <<dirs, files, progress, status, crashed, touched, last>>
    /\ UNCHANGED Const

\* GetLayout: the status text of the install callback's three branches
InstallStatus(err, serr) ==
    IF err # "nil" THEN "Install failed"
    ELSE IF serr # "nil" THEN "Shortcut creation failed"
    ELSE "Installation successful!"

\* the error the callback showed, if any
Shown_err(p) == IF g[p].err # "nil" THEN g[p].err ELSE g[p].serr

Summary(p) == [op |-> g[p].op, err |-> Shown_err(p), faulted |-> g[p].faulted,
               contents |-> Contents(files)]

\* GetLayout: the branch taken once Install and CreateShortcut have returned
InstallReport(p) ==
    /\ ~crashed
    /\ g[p].pc = "report" /\ g[p].op = "install"
    /\ status' = InstallStatus(g[p].err, g[p].serr)
    /\ progress' = IF Shown_err(p) = "nil" THEN One ELSE progress
    /\ g' = [g EXCEPT ![p].pc = "post",
                      ![p].trace = g[p].trace
                                   \o (IF Shown_err(p) = "nil" THEN <<"SetValue(1)">> ELSE <<>>)
                                   \o <<InstallStatus(g[p].err, g[p].serr)>>]
    /\ last' = Summary(p)
    /\ UNCHANGED <<dirs, files, shortcut, script, crashed, touched>>
    /\ UNCHANGED Const
    /\ UNCHANGED faults

(***************************************************************************)
(* Uninstall callback (GetLayout, Uninstall)                               *)
(***************************************************************************)

\* progress.SetValue(0) at the start of the uninstall callback
UninstallReset(p) ==
    /\ ~crashed
    /\ g[p].pc = "begin" /\ g[p].op = "uninstall"
    /\ progress' = Zero
    /\ g' = [g EXCEPT ![p].pc = "removeall",
                      ![p].trace = Log(p, "SetValue(0)"),
                      ![p].prev = last,
                      ![p].existed = Exists(dirs, files, InstallDir, DirPriv(goos, priv)),
                      ![p].nonEmpty = (Under(dirs, files, InstallDir) \ {InstallDir} # {}),
                      ![p].hadShortcut = shortcut]
    /\ UNCHANGED <<dirs, files, shortcut, script, status, crashed, touched, last>>
    /\ UNCHANGED Const
    /\ UNCHANGED faults

AfterRemoveAllAlways(err) == "rmshortcut"

\* Uninstall: the shortcut is handled only when RemoveAll returned no error
AfterRemoveAll(err) == IF err = "nil" THEN "rmshortcut" ELSE "report"

RemoveAllStrict(d, f, path, priv_) ==
    IF Under(d, f, path) = {}
    THEN [err |-> "ENOENT", dirs |-> d, files |-> f]
    ELSE RemoveAll(d, f, path, priv_)

\* Uninstall: os.RemoveAll(GetInstallPath())
UninstallRemoveTree(d, f, path, priv_) == RemoveAll(d, f, path, priv_)

\* Uninstall: status text, then os.RemoveAll(GetInstallPath())
UninstallRemoveAll(p) ==
    /\ ~crashed
    /\ g[p].pc = "removeall"
    /\ status' = "Uninstalling application..."
    /\ \E fault \in {"none", "io"} :
         LET r == IF fault = "io"
                  THEN [err |-> "EIO", dirs |-> dirs, files |-> files]
                  ELSE UninstallRemoveTree(dirs, files, InstallDir, DirPriv(goos, priv))
         IN  /\ MayFail(fault)
             /\ fault = "io" => Under(dirs, files, InstallDir) # {}
             /\ faults' = Count(fault)
             /\ dirs' = r.dirs
             /\ files' = r.files
             /\ g' = [g EXCEPT ![p].pc = AfterRemoveAll(r.err),
                               ![p].err = r.err,
                               ![p].at = "RemoveAll",
                               ![p].faulted = g[p].faulted \/ fault # "none",
                               ![p].trace = g[p].trace
                                            \o <<"Uninstalling application...", "RemoveAll">>]
    /\ UNCHANGED <<shortcut, script, progress, crashed, touched, last>>
    /\ UNCHANGED Const

\* Uninstall: status text, then os.Remove(shortcut) when the location is not empty
UninstallRemoveShortcut(p) ==
    /\ ~crashed
    /\ g[p].pc = "rmshortcut"
    /\ status' = "Removing shortcut..."
    /\ IF Len(GetShortcutLocation(goos, username)) > 0
       THEN \E fault \in {"none", "io"} :
              LET r == RemoveShortcut(shortcut, fault)
              IN  /\ MayFail(fault)
                  /\ fault = "io" => shortcut
                  /\ faults' = Count(fault)
                  /\ shortcut' = r.shortcut
                  /\ g' = [g EXCEPT ![p].pc = "report",
                                    ![p].err = IF g[p].err = "nil" THEN r.err ELSE g[p].err,
                                    ![p].at = IF g[p].err = "nil" THEN "Remove" ELSE g[p].at,
                                    ![p].faulted = g[p].faulted \/ fault # "none",
                                    ![p].trace = g[p].trace
                                                 \o <<"Removing shortcut...", "Remove">>]
       ELSE /\ shortcut' = shortcut
            /\ faults' = faults
            /\ g' = [g EXCEPT ![p].pc = "report",
                              ![p].trace = Log(p, "Removing shortcut...")]
    /\ UNCHANGED <<dirs, files, script, progress, crashed, touched, last>>
    /\ UNCHANGED Const

\* GetLayout: the status text of the uninstall callback's two branches
UninstallStatus(err) ==
    IF err # "nil" THEN "Uninstall failed" ELSE "Uninstall successful"

\* GetLayout: the branch taken once Uninstall has returned
UninstallReport(p) ==
    /\ ~crashed
    /\ g[p].pc = "report" /\ g[p].op = "uninstall"
    /\ status' = UninstallStatus(g[p].err)
    /\ progress' = IF g[p].err = "nil" THEN One ELSE progress
    /\ g' = [g EXCEPT ![p].pc = "post",
                      ![p].trace = g[p].trace
                                   \o (IF g[p].err = "nil" THEN <<"SetValue(1)">> ELSE <<>>)
                                   \o <<UninstallStatus(g[p].err)>>]
    /\ last' = Summary(p)
    /\ UNCHANGED <<dirs, files, shortcut, script, crashed, touched>>
    /\ UNCHANGED Const
    /\ UNCHANGED faults

(***************************************************************************)
(* The program is started again (main, GetLayout, GetButtonContainer)      *)
(***************************************************************************)

Relaunch ==
    /\ crashed \/ \A p \in Goroutines : g[p].pc = "free"
    /\ appInstalled' = Exists(dirs, files, InstallDir, DirPriv(goos, priv))
    /\ disabled' = [b \in {"Install", "Uninstall", "Update"} |-> FALSE]
    /\ progress' = Zero
    /\ status' = "Waiting..."
    /\ g' = [p \in Goroutines |-> Idle]
    /\ crashed' = FALSE
    /\ UNCHANGED <<goos, priv, username, appData, dirs, files, shortcut, script, taps,
                   touched, last, faults, resolved>>

Step(p) ==
    \/ ButtonDisable(p)
    \/ ButtonEnable(p)
    \/ ToggleRead(p)
    \/ ToggleWrite(p)
    \/ InstallReset(p)
    \/ InstallMkdirAll(p)
    \/ InstallDecode(p)
    \/ ExtractNewReader(p)
    \/ ExtractEntryOpen(p)
    \/ ExtractEntryCopy(p)
    \/ CallCreateShortcut(p)
    \/ InstallReport(p)
    \/ UninstallReset(p)
    \/ UninstallRemoveAll(p)
    \/ UninstallRemoveShortcut(p)
    \/ UninstallReport(p)

\* Operations started one after the other.
Next ==
    \/ \E b \in {"Install", "Uninstall", "Update"} : TapWhenIdle(b)
    \/ \E p \in Goroutines : Step(p)
    \/ Relaunch

Spec == Init /\ [][Next]_vars

(***************************************************************************)
(* Taps at any time: a second tap may come before the goroutine of the     *)
(* first has disabled its button.  The payload is one of two fixed         *)
(* archives, and no I/O fault is needed to tell the interleavings apart.   *)
(***************************************************************************)

UiPayloads ==
    {[base64 |-> TRUE, zip |-> TRUE, File |-> a] :
        a \in {<<>>, <<[name |-> <<"", "g">>, mode |-> 6, content |-> 2]>>}}

InitUI ==
    /\ goos = "linux"
    /\ priv = FALSE
    /\ username = <<"a">>
    /\ appData \in UiPayloads
    /\ InitFs
    /\ InitUi

NextUI ==
    \/ \E b \in {"Install", "Uninstall", "Update"} : Tap(b)
    \/ \E p \in Goroutines : Step(p)
    \/ Relaunch

SpecUI == InitUI /\ [][NextUI]_vars

(***************************************************************************)
(* The path functions on their own, for every platform and account name.   *)
(***************************************************************************)

InitPaths ==
    /\ goos \in GoosValues
    /\ priv = FALSE
    /\ username \in AccountNames
    /\ appData = [base64 |-> TRUE, zip |-> TRUE, File |-> <<>>]
    /\ InitFs
    /\ InitUi

Call(name, value) ==
    /\ name \notin DOMAIN resolved
    /\ resolved' = resolved @@ (name :> value)
    /\ UNCHANGED <<goos, priv, username, appData, dirs, files, shortcut, script,
                   appInstalled, disabled, progress, status, g, taps, crashed, touched,
                   last, faults>>

CallGetUsername         == Call("GetUsername", GetUsername(username))
CallGetInstallPath      == Call("GetInstallPath", GetInstallPath(goos, username))
CallGetTempPath         == Call("GetTempPath", GetTempPath(goos, username))
CallGetShortcutLocation == Call("GetShortcutLocation", GetShortcutLocation(goos, username))
CallGetExecutableName   == Call("GetExecutableName", GetExecutableName(goos))

NextPaths ==
    \/ CallGetUsername
    \/ CallGetInstallPath
    \/ CallGetTempPath
    \/ CallGetShortcutLocation
    \/ CallGetExecutableName

SpecPaths == InitPaths /\ [][NextPaths]_vars

\* every file and directory lies in an existing directory
FsWellFormed ==
    \A m \in (DOMAIN dirs) \cup (DOMAIN files) :
        /\ IsDir(dirs, Parent(m))
        /\ ~(m \in DOMAIN dirs /\ m \in DOMAIN files)

(***************************************************************************)
(* Claims                                                                  *)
(***************************************************************************)

InstallOf(p)   == g[p].op = "install"
UninstallOf(p) == g[p].op = "uninstall"

\* the callback of goroutine p has returned
Returned(p) == g[p].pc = "post"

\* Extract has returned nil to Install
ExtractSucceeded(p) ==
    /\ InstallOf(p)
    /\ g[p].pc \in {"shortcut", "report", "post"}
    /\ g[p].err = "nil"

NumEntries == Len(appData.File)

\* C1: when Extract succeeds on an archive of N >= 1 entries, the progress
\* values it reported are exactly 1/N, 2/N, ..., N/N in that order, strictly
\* increasing, the last one being 1.0.
C1_ProgressSequence ==
    \A p \in Goroutines :
        (ExtractSucceeded(p) /\ NumEntries >= 1) =>
            /\ Len(g[p].reports) = NumEntries
            /\ \A k \in 1..NumEntries :
                   g[p].reports[k][1] * NumEntries = k * g[p].reports[k][2]
            /\ \A k \in 1..(NumEntries - 1) :
                   FracLess(g[p].reports[k], g[p].reports[k + 1])
            /\ g[p].reports[NumEntries] = <<1, 1>>

C1_Witness ==
    \E p \in Goroutines :
        ExtractSucceeded(p) /\ NumEntries = MaxEntries /\ Len(g[p].reports) = MaxEntries

\* C2: every directory Extract creates and every file it writes lies inside
\* the destination directory tree, whatever the entry names are.
C2_WritesStayInsideDestination ==
    \A m \in touched : IsPrefix(InstallDir, m)

InstallSteps ==
    <<"SetValue(0)", "MkdirAll", "DecodeString", "Installing...", "NewReader",
      "CreateShortcut", "SetValue(1)", "Installation successful!">>

InTrace(p, label) == \E k \in 1..Len(g[p].trace) : g[p].trace[k] = label

\* C3: an Install/Update operation stops at its first failing step and ends in
\* exactly one of three outcomes: a failure of directory creation, decoding or
\* extraction ends with status "Install failed" and CreateShortcut not invoked;
\* a failure of CreateShortcut ends with status "Shortcut creation failed";
\* full success sets progress to 1.0 and the status "Installation successful!".
C3_InstallOutcomes ==
    \A p \in Goroutines :
        (InstallOf(p) /\ Returned(p)) =>
            \/ /\ g[p].err # "nil"
               /\ g[p].at \in {"Install.MkdirAll", "DecodeString", "NewReader",
                               "file.Open", "MkdirAll", "OpenFile", "io.Copy"}
               /\ ~InTrace(p, "CreateShortcut")
               /\ ~InTrace(p, "SetValue(1)")
               /\ status = "Install failed"
               /\ \E k \in {2, 3, 5} :
                      g[p].trace = SubSeq(InstallSteps, 1, k) \o <<"Install failed">>
               /\ (g[p].at = "Install.MkdirAll") = (Len(g[p].trace) = 3)
               /\ (g[p].at = "DecodeString") = (Len(g[p].trace) = 4)
            \/ /\ g[p].err = "nil" /\ g[p].serr # "nil"
               /\ g[p].at = "CreateShortcut"
               /\ ~InTrace(p, "SetValue(1)")
               /\ status = "Shortcut creation failed"
               /\ g[p].trace = SubSeq(InstallSteps, 1, 6) \o <<"Shortcut creation failed">>
            \/ /\ g[p].err = "nil" /\ g[p].serr = "nil"
               /\ g[p].trace = InstallSteps
               /\ Len(g[p].reports) = NumEntries
               /\ progress = <<1, 1>>
               /\ status = "Installation successful!"

C3_Witness ==
    \E p \in Goroutines :
        /\ InstallOf(p) /\ Returned(p)
        /\ g[p].err # "nil" /\ g[p].at = "OpenFile" /\ g[p].i = 1
        /\ status = "Install failed"

HasShortcutLocation == Len(GetShortcutLocation(goos, username)) > 0

\* C4: Uninstall resets progress to 0, sets "Uninstalling application...",
\* removes the install directory, sets "Removing shortcut...", and removes the
\* shortcut if its path is non-empty, in that order.  If removing the install
\* directory fails the shortcut is not touched; a failure ends with status
\* "Uninstall failed" and progress not 1.0; success ends with progress 1.0 and
\* status "Uninstall successful".
C4_UninstallOrder ==
    \A p \in Goroutines :
        (UninstallOf(p) /\ Returned(p)) =>
            \/ /\ g[p].err # "nil" /\ g[p].at = "RemoveAll"
               /\ g[p].trace = <<"SetValue(0)", "Uninstalling application...", "RemoveAll",
                                 "Uninstall failed">>
               /\ shortcut = g[p].hadShortcut
               /\ status = "Uninstall failed"
               /\ progress = <<0, 1>>
            \/ /\ g[p].err # "nil" /\ g[p].at = "Remove"
               /\ HasShortcutLocation
               /\ g[p].trace = <<"SetValue(0)", "Uninstalling application...", "RemoveAll",
                                 "Removing shortcut...", "Remove", "Uninstall failed">>
               /\ status = "Uninstall failed"
               /\ progress = <<0, 1>>
            \/ /\ g[p].err = "nil"
               /\ g[p].trace = <<"SetValue(0)", "Uninstalling application...", "RemoveAll",
                                 "Removing shortcut...">>
                               \o (IF HasShortcutLocation THEN <<"Remove">> ELSE <<>>)
                               \o <<"SetValue(1)", "Uninstall successful">>
               /\ ~Exists(dirs, files, InstallDir, TRUE)
               /\ ~shortcut \/ ~HasShortcutLocation
               /\ status = "Uninstall successful"
               /\ progress = <<1, 1>>

C4_Witness ==
    \E p \in Goroutines :
        /\ UninstallOf(p) /\ Returned(p)
        /\ g[p].err # "nil" /\ g[p].at = "RemoveAll"
        /\ g[p].hadShortcut

\* the payload decodes to an archive
PayloadValid == appData.base64 /\ appData.zip

\* the entries that are files, and where Extract puts them
FileEntries == {k \in 1..NumEntries : ~IsDirEntry(appData.File[k])}

\* entry k is the last one extracted to its path
LastForPath(k) ==
    \A j \in FileEntries :
        Join(InstallDir, appData.File[j].name) = Join(InstallDir, appData.File[k].name)
            => j <= k

\* every file named by an archive entry has that entry's content
EntriesInPlace ==
    \A k \in FileEntries :
        LastForPath(k) =>
            LET path == Join(InstallDir, appData.File[k].name)
            IN  path \in DOMAIN files /\ files[path].content = appData.File[k].content

\* the operation before this one was an Install/Update that succeeded
AfterGoodInstall(p) ==
    /\ g[p].prev.op = "install"
    /\ g[p].prev.err = "nil"

\* C5: Install/Update started with the install directory present and
\* non-empty, in particular right after a successful Install of the same
\* payload, succeeds, and afterwards every file named by an archive entry has
\* that entry's content (no I/O failure being injected).
C5_InstallOverExisting ==
    \A p \in Goroutines :
        ( /\ InstallOf(p) /\ Returned(p)
          /\ PayloadValid
          /\ g[p].existed /\ g[p].nonEmpty
          /\ AfterGoodInstall(p)
          /\ ~g[p].faulted )
        => (g[p].err = "nil" /\ g[p].serr = "nil" /\ EntriesInPlace)

\* C6 as stated: Uninstall started with the install directory missing ends
\* with a "not found" error and status "Uninstall failed", on every platform
\* and whether or not a shortcut file exists.
C6_UninstallMissingDirFails ==
    \A p \in Goroutines :
        (UninstallOf(p) /\ Returned(p) /\ ~g[p].existed) =>
            (g[p].err = "ENOENT" /\ status = "Uninstall failed")

\* C6 as amended: Uninstall started with the install directory missing gets
\* no error from removing the directory; it ends with a "not found" error and
\* status "Uninstall failed" exactly when the platform has a shortcut location
\* and the shortcut file does not exist; with no shortcut location, or with
\* the shortcut file present and removed, it ends "Uninstall successful".
C6_UninstallMissingDir ==
    \A p \in Goroutines :
        (UninstallOf(p) /\ Returned(p) /\ ~g[p].existed) =>
            /\ g[p].err # "nil" => g[p].at = "Remove"
            /\ InTrace(p, "Removing shortcut...")
            /\ (g[p].err = "ENOENT") = (HasShortcutLocation /\ ~g[p].hadShortcut)
            /\ (g[p].err = "nil") =
                   (~HasShortcutLocation \/ (g[p].hadShortcut /\ ~g[p].faulted))
            /\ status = (IF g[p].err = "nil" THEN "Uninstall successful"
                         ELSE "Uninstall failed")

C6_Witness ==
    \E p \in Goroutines :
        /\ UninstallOf(p) /\ Returned(p) /\ ~g[p].existed
        /\ HasShortcutLocation /\ g[p].hadShortcut
        /\ status = "Uninstall successful"

NoneRunning == \A p \in Goroutines : g[p].pc = "free"

\* C7: under every interleaving of taps and goroutines, the buttons shown are
\* disabled for the whole time an operation is running, and once every
\* started operation has finished they are all enabled again.
C7_ControlsDisabledWhileRunning ==
    ~crashed =>
        /\ (\E p \in Goroutines : Running(p)) => \A b \in Shown : disabled[b]
        /\ NoneRunning => \A b \in Shown : ~disabled[b]

\* C8: extracting the same archive twice in a row into the same destination
\* succeeds both times and leaves the file contents of the first extraction,
\* whatever the permission bits of the entries (no I/O failure being injected).
C8_ExtractTwice ==
    \A p \in Goroutines :
        ( /\ InstallOf(p) /\ Returned(p)
          /\ PayloadValid
          /\ AfterGoodInstall(p)
          /\ ~g[p].faulted )
        => (g[p].err = "nil" /\ Contents(files) = g[p].prev.contents)

\* entry k is a file below a directory of the archive, and no directory entry
\* of the archive is read-only
NestedFile(k) ==
    /\ ~IsDirEntry(appData.File[k])
    /\ Len(SelectSeq(appData.File[k].name, LAMBDA c : c \notin {"", ".", ".."})) >= 2
    /\ \A j \in 1..NumEntries : IsDirEntry(appData.File[j]) => appData.File[j].mode = 7

\* C9: a file entry nested under a directory, in either order of the directory
\* entry and the file entry or with no directory entry, and for every mode of
\* the file entry, is never refused for want of a usable parent directory.
C9_ParentUsable ==
    \A p \in Goroutines :
        ( /\ InstallOf(p)
          /\ g[p].pc \in {"report", "post"}
          /\ g[p].err # "nil"
          /\ g[p].at \in {"MkdirAll", "OpenFile"}
          /\ NestedFile(g[p].i + 1) )
        => g[p].why # "parent"

\* the directory the process was started in
Cwd == <<"/", "cwd">>

\* the location a path string names: a relative path starts at Cwd
Abs(path) == IF IsAbs(path) THEN path ELSE Cwd \o <<"/">> \o path

InstallPathCalled == "GetInstallPath" \in DOMAIN resolved

\* the install directory on the three supported platforms
SupportedInstallPath(os, user) ==
    CASE os = "darwin"  -> <<"/", "Applications", "/", "OpenRQ", "/">>
      [] os = "windows" -> <<"C:", "/", "Users", "/">> \o user
                           \o <<"/", "AppData", "/", "Local", "/", "OpenRQ", "/">>
      [] os = "linux"   -> <<"/", "home", "/">> \o user
                           \o <<"/", ".local", "/", "share", "/", "OpenRQ", "/">>

\* the account name without its host prefix
NormalUser ==
    IF \E k \in 1..Len(username) : username[k] = "\\"
    THEN LET k == CHOOSE j \in 1..Len(username) :
                      username[j] = "\\" /\ \A m \in (j + 1)..Len(username) : username[m] # "\\"
         IN  [m \in 1..(Len(username) - k) |-> username[k + m]]
    ELSE username

UsernameCalled == "GetUsername" \in DOMAIN resolved

HasBackslash(s) == \E k \in 1..Len(s) : s[k] = "\\"

\* C11: for every OS account name, the resolved username is the part after
\* the last backslash when the name contains a backslash, and the name
\* unchanged when it contains none; the result never contains a backslash.
C11_UsernameNormalized ==
    UsernameCalled =>
        LET r == resolved["GetUsername"]
        IN  /\ ~HasBackslash(r)
            /\ HasBackslash(username) =>
                   \E head \in SeqsUpTo(NameChars, MaxNameLen) :
                       username = head \o <<"\\">> \o r
            /\ ~HasBackslash(username) => r = username

C11_Witness ==
    /\ UsernameCalled
    /\ username = <<"\\", "\\", "b">>
    /\ resolved["GetUsername"] = <<"b">>

\* Extract has returned the error of extractAndWrite for entry g[p].i
ExtractAborted(p) ==
    /\ InstallOf(p)
    /\ g[p].pc \in {"report", "post"}
    /\ g[p].err # "nil"
    /\ g[p].at \in {"file.Open", "MkdirAll", "OpenFile", "io.Copy"}

\* C12: progress is set to (index+1)/N for each entry processed whether or
\* not its extraction succeeds: when extraction aborts at entry i of N, the
\* values reported are exactly 1/N, ..., (i+1)/N, none for a later entry, and
\* the bar is left at (i+1)/N.
C12_ProgressOnAbort ==
    \A p \in Goroutines :
        ExtractAborted(p) =>
            /\ g[p].i + 1 <= NumEntries
            /\ Len(g[p].reports) = g[p].i + 1
            /\ \A k \in 1..(g[p].i + 1) :
                   g[p].reports[k][1] * NumEntries = k * g[p].reports[k][2]
            /\ progress[1] * NumEntries = (g[p].i + 1) * progress[2]

C12_Witness ==
    \E p \in Goroutines :
        /\ ExtractAborted(p)
        /\ NumEntries = 2 /\ g[p].i = 0
        /\ g[p].reports = << <<1, 2>> >>
        /\ progress = <<1, 2>>

\* where Extract puts entry k (1-based) of the archive
PathOfEntry(k) == Join(InstallDir, appData.File[k].name)

\* entry k, extracted before the failing entry n, was not written again by a
\* later entry up to n
NotRewritten(k, n) ==
    \A j \in (k + 1)..n :
        IsDirEntry(appData.File[j]) \/ PathOfEntry(j) # PathOfEntry(k)

\* nothing an entry up to n does can create path
BeyondEntries(path, n) ==
    /\ IsPrefix(InstallDir, path) /\ path # InstallDir
    /\ \A k \in 1..n : ~IsPrefix(path, PathOfEntry(k))

\* C13: when extracting entry i fails, Extract returns that error at once:
\* it never goes on to another entry while holding an error, no entry after i
\* is created or written, and every directory and file written for the
\* entries before i is left in place with its extracted content.
C13_NoRollback ==
    \A p \in Goroutines :
        /\ g[p].pc \in {"entry", "copy"} => g[p].err = "nil"
        /\ ExtractAborted(p) =>
              LET n == g[p].i + 1
              IN  /\ Len(g[p].reports) = n
                  /\ g[p].err \in {"EIO", "EACCES", "ENOTDIR", "ENOENT", "EISDIR"}
                  /\ \A k \in 1..(n - 1) :
                         IF IsDirEntry(appData.File[k])
                         THEN PathOfEntry(k) \in DOMAIN dirs
                         ELSE NotRewritten(k, n) =>
                                  /\ PathOfEntry(k) \in DOMAIN files
                                  /\ files[PathOfEntry(k)].content = appData.File[k].content
                  /\ ~g[p].existed =>
                         \A j \in (n + 1)..NumEntries :
                             BeyondEntries(PathOfEntry(j), n) =>
                                 PathOfEntry(j) \notin (DOMAIN dirs) \cup (DOMAIN files)

C13_Witness ==
    \E p \in Goroutines :
        /\ ExtractAborted(p)
        /\ g[p].i = 1
        /\ ~IsDirEntry(appData.File[1])
        /\ PathOfEntry(1) # PathOfEntry(2)
        /\ files[PathOfEntry(1)].content = appData.File[1].content

\* C14: whenever Extract returns, with success or with an error from any
\* step, no file handle it opened is still open; the source reader and the
\* destination file of an entry are open only between the opening of the
\* destination and the end of the copy, never when the next entry begins.
C14_HandlesClosed ==
    \A p \in Goroutines :
        /\ g[p].pc # "copy" => g[p].handles = {}
        /\ g[p].pc = "copy" => g[p].handles = {"readCloser", "outFile"}

C14_Witness ==
    \E p \in Goroutines :
        /\ ExtractAborted(p)
        /\ g[p].at = "io.Copy"
        /\ g[p].i = 1
        /\ g[p].handles = {}

\* CreateShortcut has returned to the install callback of goroutine p
ShortcutReturned(p) ==
    /\ InstallOf(p)
    /\ g[p].pc \in {"report", "post"}
    /\ InTrace(p, "CreateShortcut")

\* C15: on the platform that creates the shortcut through a generated script,
\* once the script file has been written CreateShortcut deletes it before
\* returning, whether the script host succeeded or failed: the temporary
\* script does not remain after a script execution failure.
C15_ScriptRemovedAfterRun ==
    \A p \in Goroutines :
        (ShortcutReturned(p) /\ goos = "windows" /\ g[p].serr \in {"nil", "exec"})
            => ~script

\* C16: when the shortcut path is non-empty and the shortcut file does not
\* exist, Uninstall returns an error and ends with status "Uninstall failed";
\* when the error comes from removing the shortcut it is "not found" and the
\* install directory has already been removed.  When the shortcut path is
\* empty, shortcut removal is skipped and cannot make Uninstall fail.
C16_UninstallShortcutAbsent ==
    \A p \in Goroutines :
        (UninstallOf(p) /\ Returned(p)) =>
            /\ (HasShortcutLocation /\ ~g[p].hadShortcut) =>
                   /\ g[p].err # "nil"
                   /\ status = "Uninstall failed"
                   /\ g[p].at = "Remove" <=> InTrace(p, "Remove")
                   /\ g[p].at = "Remove" =>
                          /\ g[p].err = "ENOENT"
                          /\ ~Exists(dirs, files, InstallDir, TRUE)
            /\ ~HasShortcutLocation =>
                   /\ ~InTrace(p, "Remove")
                   /\ g[p].err # "nil" => g[p].at = "RemoveAll"
                   /\ g[p].err = "nil" => status = "Uninstall successful"
                   /\ shortcut = g[p].hadShortcut

C16_Witness ==
    \E p \in Goroutines :
        /\ UninstallOf(p) /\ Returned(p)
        /\ HasShortcutLocation /\ ~g[p].hadShortcut
        /\ g[p].existed
        /\ g[p].err = "ENOENT" /\ g[p].at = "Remove"
        /\ ~Exists(dirs, files, InstallDir, TRUE)
        /\ status = "Uninstall failed"

C16_WitnessNoLocation ==
    \E p \in Goroutines :
        /\ UninstallOf(p) /\ Returned(p)
        /\ ~HasShortcutLocation
        /\ g[p].existed
        /\ status = "Uninstall successful"

\* v is a value in [0.0, 1.0]
InUnitRange(v) == v[2] > 0 /\ 0 <= v[1] /\ v[1] <= v[2]

\* goroutine p is in the same operation before and after the step
SameOperation(p) == g[p].op # "none" /\ g'[p].op = g[p].op /\ g'[p].pc # "free"

\* C17: across every sequence of Install/Update and Uninstall operations the
\* progress value is always in [0.0, 1.0]; an operation changes nothing
\* (status, filesystem, shortcut) before it has set progress to 0; and after
\* that reset the value never decreases within the operation.
C17_ProgressDiscipline ==
    [][ /\ InUnitRange(progress) /\ InUnitRange(progress')
        /\ \A p \in Goroutines :
               SameOperation(p) =>
                   /\ g[p].pc \in {"pre", "begin"} =>
                          UNCHANGED <<status, dirs, files, shortcut, script>>
                   /\ g[p].pc = "pre" => progress' = progress
                   /\ g[p].pc = "begin" => progress' = <<0, 1>>
                   /\ (Running(p) /\ g[p].pc # "begin") => FracLeq(progress, progress')
      ]_vars

C17_Witness ==
    \E p \in Goroutines :
        /\ g[p].pc = "entry" /\ g[p].i = 1
        /\ g[p].prev.op # "none" /\ g[p].prev.err = "nil"
        /\ progress = <<1, 2>>

\* the goroutines whose Install/Update/Uninstall callback is executing
Executing == {p \in Goroutines : Running(p)}

\* C18: when operations are started only through the buttons, disabling the
\* buttons keeps a second operation from starting while one is running:
\* under every interleaving of taps and goroutines at most one
\* Install/Update/Uninstall operation is executing at any time.
C18_AtMostOneExecuting ==
    ~crashed => Cardinality(Executing) <= 1

\* the install callback of goroutine p has ended with full success
InstallSucceeded(p) ==
    InstallOf(p) /\ Returned(p) /\ g[p].err = "nil" /\ g[p].serr = "nil"

\* C19: on every OS family and with no injected I/O failure, CreateShortcut
\* leaves a shortcut file at the shortcut location exactly when that location
\* is non-empty, so a successful Install/Update followed directly by Uninstall
\* returns no error and leaves neither the install directory nor the shortcut.
C19_InstallThenUninstall ==
    \A p \in Goroutines :
        /\ InstallSucceeded(p) => (shortcut <=> HasShortcutLocation)
        /\ (UninstallOf(p) /\ Returned(p) /\ AfterGoodInstall(p) /\ ~g[p].faulted) =>
               /\ g[p].hadShortcut <=> HasShortcutLocation
               /\ g[p].err = "nil"
               /\ status = "Uninstall successful"
               /\ ~Exists(dirs, files, InstallDir, TRUE)
               /\ ~shortcut

C19_Witness ==
    \E p \in Goroutines :
        /\ UninstallOf(p) /\ Returned(p) /\ AfterGoodInstall(p) /\ ~g[p].faulted
        /\ goos = "other"
        /\ g[p].existed /\ g[p].nonEmpty
        /\ g[p].err = "nil"

C19_WitnessShortcut ==
    \E p \in Goroutines :
        /\ UninstallOf(p) /\ Returned(p) /\ AfterGoodInstall(p) /\ ~g[p].faulted
        /\ goos \in {"linux", "windows"}
        /\ g[p].existed /\ g[p].nonEmpty /\ g[p].hadShortcut
        /\ g[p].err = "nil"

\* C20 as stated: at the end of an Install/Update operation the progress value
\* is 1.0 only if the operation succeeded; whenever it ends with status
\* "Install failed" or "Shortcut creation failed" the value is below 1.0.
C20_FullOnlyOnSuccess ==
    \A p \in Goroutines :
        (InstallOf(p) /\ Returned(p)) =>
            /\ progress = <<1, 1>> => (g[p].err = "nil" /\ g[p].serr = "nil")
            /\ status \in {"Install failed", "Shortcut creation failed"} =>
                   FracLess(progress, <<1, 1>>)

\* the last value the operation of goroutine p has set on the progress bar
LastSet(p) ==
    IF InTrace(p, "SetValue(1)") THEN <<1, 1>>
    ELSE IF g[p].reports # <<>> THEN g[p].reports[Len(g[p].reports)]
    ELSE <<0, 1>>

\* C20 as amended: the last progress value an Install/Update operation sets,
\* which the bar shows at its end when no other operation ran meanwhile, is
\* 1.0 when the operation succeeded; after "Install failed" it is 0 when the
\* failure came before the first entry and (i+1)/N when extracting entry i of
\* N failed, which is 1.0 exactly when i is the last entry; after "Shortcut
\* creation failed" it is 1.0, or 0 for an archive without entries.
C20_FinalProgress ==
    \A p \in Goroutines :
        (InstallOf(p) /\ Returned(p)) =>
            /\ InTrace(p, "SetValue(0)")
            /\ progress = LastSet(p)
            /\ InTrace(p, "SetValue(1)") <=> InstallSucceeded(p)
            /\ InstallSucceeded(p) =>
                   /\ LastSet(p) = <<1, 1>>
                   /\ InTrace(p, "Installation successful!")
            /\ (g[p].err # "nil" /\ ~ExtractAborted(p)) =>
                   /\ g[p].at \in {"Install.MkdirAll", "DecodeString", "NewReader"}
                   /\ LastSet(p) = <<0, 1>>
                   /\ InTrace(p, "Install failed")
            /\ ExtractAborted(p) =>
                   /\ LastSet(p)[1] * NumEntries = (g[p].i + 1) * LastSet(p)[2]
                   /\ (LastSet(p) = <<1, 1>>) = (g[p].i + 1 = NumEntries)
                   /\ InTrace(p, "Install failed")
            /\ (g[p].err = "nil" /\ g[p].serr # "nil") =>
                   /\ LastSet(p) = (IF NumEntries = 0 THEN <<0, 1>> ELSE <<1, 1>>)
                   /\ InTrace(p, "Shortcut creation failed")

C20_Witness ==
    \E p \in Goroutines :
        /\ InstallOf(p) /\ Returned(p)
        /\ ExtractAborted(p)
        /\ NumEntries = 2 /\ g[p].i = 1
        /\ progress = <<1, 1>>
        /\ status = "Install failed"

C20_WitnessShortcut ==
    \E p \in Goroutines :
        /\ InstallOf(p) /\ Returned(p)
        /\ g[p].err = "nil" /\ g[p].serr # "nil"
        /\ NumEntries = 2
        /\ progress = <<1, 1>>
        /\ status = "Shortcut creation failed"

====
